---- MODULE Spec2Model ----
(***************************************************************************)
(* A model of pyOptSparse's IPOPT wrapper (pyIPOPT.py): the IPOPT class,   *)
(* its option list, and the course of IPOPT.__call__ on rank 0 and on the  *)
(* other MPI ranks.  The interior-point solver itself (pyipoptcore) is the *)
(* environment: it receives the calls the wrapper makes and, while         *)
(* nlp.solve runs, calls the four callbacks back.                          *)
(***************************************************************************)
EXTENDS Integers, Sequences, FiniteSets, TLC

\* ------------------------------------------------------------------ bounds

\* Number of MPI ranks when mpi4py is importable (rank 0 and the others).
NRanks == 2
\* At most this many entries are appended to self.set_options.
MaxOpts == 2
\* At most this many broadcasts of rank 0 wait, unreceived, for one rank;
\* a further broadcast blocks rank 0 until the rank has received one.
MaxInFlight == 1
\* The solver makes at most this many callbacks inside one nlp.solve.
MaxEvals == 2
\* Seconds one masterFunc evaluation takes.
EvalSeconds == 2

Ranks == 0 .. (NRanks - 1)
Workers == Ranks \ {0}

\* ------------------------------------------------------ Python values

\* A Python Optional: None is the empty tuple, a value x is <<x>>.
None == <<>>
Some(x) == <<x>>

\* An option value is a Python object, modelled by its type and a payload.
PyValue(ty, v) == [ty |-> ty, v |-> v]

\* The types of Python 2 that isinstance(value, cls) accepts for a value of
\* type ty: bool is a subclass of int; str, float, int and NoneType have no
\* subclass relation to one another.
Mro(ty) == IF ty = "bool" THEN {"bool", "int"} ELSE {ty}

isinstance(value, cls) == cls \in Mro(value.ty)

\* The [name, value] pairs a caller hands to _on_setOption.  Two names carry
\* two values each, of different types, so that a name can be set twice.
OptionInputs ==
    { <<"output_file", PyValue("str", 1)>>,
      <<"tol", PyValue("float", 1)>>,
      <<"max_iter", PyValue("int", 100)>>,
      <<"max_iter", PyValue("bool", 1)>>,
      <<"tol", PyValue("NoneType", 0)>> }

\* ------------------------------------------------- optimization problems

\* A constraint of optProb.constraints: linear or not, and its Jacobian in
\* COO form (local row indices, column indices), ncon rows.
Con(linear, ncon, row, col) ==
    [linear |-> linear, ncon |-> ncon, row |-> row, col |-> col]

\* The problems passed to __call__: optProb.constraints in dictionary order.
Problems ==
    { << >>,
      << Con(FALSE, 1, <<0, 0>>, <<0, 1>>) >>,
      << Con(TRUE, 2, <<0, 1>>, <<0, 1>>), Con(FALSE, 1, <<0>>, <<1>>) >> }

\* timeLimit arguments: None, or a number of seconds.
TimeLimits == {None, Some(1)}

\* ------------------------------------------------------ sparse matrices

\* A scipy COO matrix: its number of rows and the .row / .col index arrays.
Coo(n, row, col) == [shape0 |-> n, row |-> row, col |-> col]

\* scipy.sparse.vstack([A, B]) in COO form: B's rows follow A's.
vstack(A, B) ==
    Coo(A.shape0 + B.shape0,
        A.row \o [i \in 1 .. Len(B.row) |-> B.row[i] + A.shape0],
        A.col \o B.col)

\* optProb.processConstraintJacobian(gcon, linearFlag): the Jacobians of the
\* constraints whose .linear equals linearFlag, stacked in dictionary order.
RECURSIVE processConstraintJacobian(_, _)
processConstraintJacobian(cons, linearFlag) ==
    IF cons = << >> THEN Coo(0, << >>, << >>)
    ELSE LET con == cons[Len(cons)]
             above == processConstraintJacobian(SubSeq(cons, 1, Len(cons) - 1),
                                                linearFlag)
         IN IF con.linear = linearFlag
            THEN vstack(above, Coo(con.ncon, con.row, con.col))
            ELSE above

\* optProb.linearJacobian after finalizeConstraints: None without linear
\* constraints, else the stacked Jacobian of the linear ones.
linearJacobian(cons) ==
    IF \E i \in 1 .. Len(cons) : cons[i].linear
    THEN Some(processConstraintJacobian(cons, TRUE))
    ELSE None

\* fullJacobian as __call__ assembles it (lines 216-228).
fullJacobian(cons) ==
    LET nonlinear == processConstraintJacobian(cons, FALSE)
    IN IF linearJacobian(cons) # None
       THEN vstack(nonlinear, linearJacobian(cons)[1])
       ELSE nonlinear

\* matStruct (lines 232-233): the pair (row, col) of fullJacobian.
MatStructOf(cons) == << fullJacobian(cons).row, fullJacobian(cons).col >>

\* Mutant of NnzjOf: the length of the pair itself, len(matStruct).
NnzjOfPair(ms) == Len(ms)

\* nnzj (line 259): len(matStruct[0]).
NnzjOf(ms) == Len(ms[1])

\* ------------------------------------------------------ solver calls

\* A call made on pyipoptcore or on the nlp instance it created.
NlpCall(m, name, value) == [m |-> m, name |-> name, value |-> value]

NoArg == PyValue("NoneType", 0)

OptionSetters == {"str_option", "num_option", "int_option"}

\* Mutant of OptionCall: the int branch tests type(value) == int, which a
\* bool does not pass.
OptionCallExactInt(item) ==
    LET name == item[1]
        value == item[2]
    IN IF isinstance(value, "str") THEN << NlpCall("str_option", name, value) >>
       ELSE IF isinstance(value, "float") THEN << NlpCall("num_option", name, value) >>
       ELSE IF value.ty = "int" THEN << NlpCall("int_option", name, value) >>
       ELSE << >>

\* The body of the loop of _set_ipopt_options (lines 306-316): the calls
\* made on nlp for one item of self.set_options.
OptionCall(item) ==
    LET name == item[1]
        value == item[2]
    IN IF isinstance(value, "str") THEN << NlpCall("str_option", name, value) >>
       ELSE IF isinstance(value, "float") THEN << NlpCall("num_option", name, value) >>
       ELSE IF isinstance(value, "int") THEN << NlpCall("int_option", name, value) >>
       ELSE << >>

\* _set_ipopt_options(nlp) (lines 305-320): the calls made on nlp, in order.
RECURSIVE set_ipopt_options(_)
set_ipopt_options(items) ==
    IF items = << >> THEN << >>
    ELSE OptionCall(Head(items)) \o set_ipopt_options(Tail(items))

\* A Solution object as _createSolution builds it from the solve's results.
Solution(time, funcEval) == [optTime |-> time, funcEval |-> funcEval]

\* ------------------------------------------------------ MPI messages

\* A value broadcast from rank 0 on MPI.COMM_WORLD: a waitLoop mode (0 asks
\* for an evaluation, -1 ends the loop) or the final solution.
ModeMsg(mode) == [tag |-> "mode", mode |-> mode, sol |-> None]
SolMsg(sol) == [tag |-> "sol", mode |-> 0, sol |-> sol]

\* What a callback returned to the solver.
CbReturn(fn, flag, ret) == [fn |-> fn, flag |-> flag, ret |-> ret]
NoCallback == CbReturn("", FALSE, << >>)

\* -------------------------------------------------------------- state

VARIABLES
    MPI,            \* module global MPI: TRUE when mpi4py was imported
    set_options,    \* self.set_options of the rank 0 instance
    unconstrained,  \* self.unconstrained of the rank 0 instance
    optProb,        \* self.optProb of the rank 0 instance (None before the first call)
    pc,             \* where each rank stands in __call__
    ret,            \* what each rank's last __call__ returned (None or a Solution)
    chan,           \* per rank: values broadcast by rank 0 and not yet received
    timeLimit,      \* argument timeLimit of the running call on rank 0
    hist,           \* self.hist on rank 0: "none", "open" or "closed"
    matStruct,      \* local matStruct of the running call
    nnzj,           \* nnzj handed to pyipoptcore.create
    nlpLog,         \* calls made on pyipoptcore / nlp in the running call
    commLog,        \* broadcasts rank 0 issued in the running call
    callCounter,    \* self.callCounter on rank 0
    cbCount,        \* callbacks the solver made in the running nlp.solve
    lastCb,         \* what the last callback returned to the solver
    lastEval,       \* the evaluate argument of the last masterFunc call
    elapsed,        \* time.time() - timeA: seconds since line 258 of the running call
    optTime,        \* local optTime
    sol             \* local sol on rank 0

vars == << MPI, set_options, unconstrained, optProb, pc, ret, chan,
           timeLimit, hist, matStruct, nnzj, nlpLog, commLog, callCounter,
           cbCount, lastCb, lastEval, elapsed, optTime, sol >>

\* Groups of variables, for the UNCHANGED clauses.
instance == << set_options, unconstrained, optProb, hist, callCounter >>
callLocals == << timeLimit, matStruct, nnzj, optTime, sol >>
solver == << nlpLog, cbCount, lastCb, lastEval >>
comm == << chan, commLog >>
ranks == << pc, ret >>

\* IPOPT.__init__ (lines 109-116), before any call.
Init ==
    /\ MPI \in BOOLEAN
    /\ set_options = << >>
    /\ unconstrained = FALSE
    /\ optProb = None
    /\ pc = [r \in Ranks |-> "idle"]
    /\ ret = [r \in Ranks |-> None]
    /\ chan = [r \in Workers |-> << >>]
    /\ timeLimit = None
    /\ hist = "none"
    /\ matStruct = << << >>, << >> >>
    /\ nnzj = 0
    /\ nlpLog = << >>
    /\ commLog = << >>
    /\ callCounter = 0
    /\ cbCount = 0
    /\ lastCb = NoCallback
    /\ lastEval = ""
    /\ elapsed = 0
    /\ optTime = 0
    /\ sol = None

\* MPI.COMM_WORLD.bcast(msg, root=0) on rank 0: every other rank will
\* receive msg, in the order of the broadcasts.  The call returns before
\* the others have received msg as long as fewer than MaxInFlight
\* broadcasts wait for each of them, and blocks otherwise.
Bcast(msg) ==
    /\ \A r \in Workers : Len(chan[r]) < MaxInFlight
    /\ chan' = [r \in Workers |-> Append(chan[r], msg)]
    /\ commLog' = Append(commLog, msg)

\* _on_setOption(name, value) (line 329), between two solves.
OnSetOption(name, value) ==
    /\ pc[0] = "idle"
    /\ Len(set_options) < MaxOpts
    /\ set_options' = Append(set_options, << name, value >>)
    /\ UNCHANGED << MPI, unconstrained, optProb, hist, callCounter, elapsed >>
    /\ UNCHANGED << callLocals, solver, comm, ranks >>

\* Lines 184-190: the flag a problem without constraints sets.
UnconstrainedAfter(flag, prob) == IF Len(prob) = 0 THEN TRUE ELSE flag

\* _setHistory(storeHistory): the history file is opened when a name is given.
setHistory(sh) == IF sh THEN "open" ELSE "none"

\* self.storeHistory, as _setHistory left it.
storeHistory == hist # "none"

\* __call__ on rank 0 up to line 259: callCounter, the unconstrained flag,
\* self.optProb, the Jacobian structure, the history file, timeA and nnzj.
Call(prob, tl, sh) ==
    /\ pc[0] = "idle"
    /\ callCounter' = 0
    /\ unconstrained' = UnconstrainedAfter(unconstrained, prob)
    /\ optProb' = Some(prob)
    /\ matStruct' = MatStructOf(prob)
    /\ hist' = setHistory(sh)
    /\ timeLimit' = tl
    /\ elapsed' = 0
    /\ nnzj' = NnzjOf(MatStructOf(prob))
    /\ pc' = [pc EXCEPT ![0] = "assembled"]
    /\ UNCHANGED << MPI, set_options, ret, optTime, sol >>
    /\ UNCHANGED << solver, comm >>

\* pyipoptcore.create(...) (lines 261-262).
Create ==
    /\ pc[0] = "assembled"
    /\ nlpLog' = Append(nlpLog, NlpCall("create", "nnzj", PyValue("int", nnzj)))
    /\ pc' = [pc EXCEPT ![0] = "created"]
    /\ UNCHANGED << MPI, ret, cbCount, lastCb, lastEval, elapsed >>
    /\ UNCHANGED << instance, callLocals, comm >>

\* Mutant of SetIpoptOptions: the options are kept by name, as in a
\* dictionary, and each name is forwarded once.
SetIpoptOptionsByName ==
    /\ pc[0] = "created"
    /\ nlpLog' = nlpLog \o set_ipopt_options(
                    SelectSeq(set_options,
                              LAMBDA item : item = set_options[
                                  CHOOSE i \in 1 .. Len(set_options) :
                                      /\ set_options[i][1] = item[1]
                                      /\ \A j \in 1 .. Len(set_options) :
                                            set_options[j][1] = item[1] => j <= i]))
    /\ pc' = [pc EXCEPT ![0] = "optionsSet"]
    /\ UNCHANGED << MPI, ret, cbCount, lastCb, lastEval, elapsed >>
    /\ UNCHANGED << instance, callLocals, comm >>

\* self._set_ipopt_options(nlp) (line 264).
SetIpoptOptions ==
    /\ pc[0] = "created"
    /\ nlpLog' = nlpLog \o set_ipopt_options(set_options)
    /\ pc' = [pc EXCEPT ![0] = "optionsSet"]
    /\ UNCHANGED << MPI, ret, cbCount, lastCb, lastEval, elapsed >>
    /\ UNCHANGED << instance, callLocals, comm >>

\* nlp.solve(xs) is entered (line 265).
SolveBegin ==
    /\ pc[0] = "optionsSet"
    /\ nlpLog' = Append(nlpLog, NlpCall("solve", "", NoArg))
    /\ pc' = [pc EXCEPT ![0] = "solving"]
    /\ UNCHANGED << MPI, ret, cbCount, lastCb, lastEval, elapsed >>
    /\ UNCHANGED << instance, callLocals, comm >>

\* self.masterFunc(x, evaluate) on rank 0: one evaluation, which takes
\* EvalSeconds, counts in callCounter and is announced to the ranks in waitLoop.
masterFunc(evaluate) ==
    /\ callCounter' = callCounter + 1
    /\ lastEval' = evaluate
    /\ elapsed' = elapsed + EvalSeconds
    /\ IF MPI THEN Bcast(ModeMsg(0)) ELSE UNCHANGED comm

\* The solver calls one of eval_f, eval_g, eval_grad_f (lines 239-249).
EvalFunc(fn, evaluate) ==
    /\ pc[0] = "solving"
    /\ cbCount < MaxEvals
    /\ cbCount' = cbCount + 1
    /\ masterFunc(evaluate)
    /\ lastCb' = CbReturn(fn, FALSE, << >>)
    /\ UNCHANGED << MPI, set_options, unconstrained, optProb, hist, nlpLog >>
    /\ UNCHANGED << callLocals, ranks >>

\* The solver calls eval_jac_g(x, flag) (lines 251-256).
EvalJacG(flag) ==
    /\ pc[0] = "solving"
    /\ cbCount < MaxEvals
    /\ cbCount' = cbCount + 1
    /\ IF flag
       THEN /\ lastCb' = CbReturn("eval_jac_g", TRUE, matStruct)
            /\ UNCHANGED << callCounter, lastEval, elapsed, comm >>
       ELSE /\ masterFunc("gcon")
            /\ lastCb' = CbReturn("eval_jac_g", FALSE, << >>)
    /\ UNCHANGED << MPI, set_options, unconstrained, optProb, hist, nlpLog >>
    /\ UNCHANGED << callLocals, ranks >>

\* nlp.solve returns (line 265).
SolveReturn ==
    /\ pc[0] = "solving"
    /\ pc' = [pc EXCEPT ![0] = "solved"]
    /\ UNCHANGED << MPI, ret, elapsed >>
    /\ UNCHANGED << instance, callLocals, solver, comm >>

\* Mutant of Close: optTime is taken but nlp.close() is never called.
CloseForgotten ==
    /\ pc[0] = "solved"
    /\ optTime' = elapsed
    /\ pc' = [pc EXCEPT ![0] = "closed"]
    /\ UNCHANGED << MPI, ret, elapsed >>
    /\ UNCHANGED << instance, timeLimit, matStruct, nnzj, sol, solver, comm >>

\* nlp.close() and optTime (lines 266-267).
Close ==
    /\ pc[0] = "solved"
    /\ nlpLog' = Append(nlpLog, NlpCall("close", "", NoArg))
    /\ optTime' = elapsed
    /\ pc' = [pc EXCEPT ![0] = "closed"]
    /\ UNCHANGED << MPI, ret, cbCount, lastCb, lastEval, elapsed >>
    /\ UNCHANGED << instance, timeLimit, matStruct, nnzj, sol, comm >>

\* self.hist.close() when storeHistory is set, and the solution (lines 269-279).
CreateSolution ==
    /\ pc[0] = "closed"
    /\ hist' = IF storeHistory THEN "closed" ELSE hist
    /\ sol' = Some(Solution(optTime, 1))
    /\ pc' = [pc EXCEPT ![0] = "solCreated"]
    /\ UNCHANGED << MPI, ret, set_options, unconstrained, optProb,
                    callCounter, timeLimit, matStruct, nnzj, optTime, elapsed >>
    /\ UNCHANGED << solver, comm >>

\* Mutant of BcastFinished: rank 0 goes on to the final broadcast without
\* the broadcast of -1.
BcastFinishedSkipped ==
    /\ pc[0] = "solCreated"
    /\ pc' = [pc EXCEPT ![0] = "joined"]
    /\ UNCHANGED << MPI, ret, elapsed >>
    /\ UNCHANGED << instance, callLocals, solver, comm >>

\* The broadcast of -1 that ends the other ranks' waitLoop (lines 281-283).
BcastFinished ==
    /\ pc[0] = "solCreated"
    /\ IF MPI THEN Bcast(ModeMsg(-1)) ELSE UNCHANGED comm
    /\ pc' = [pc EXCEPT ![0] = "joined"]
    /\ UNCHANGED << MPI, ret, elapsed >>
    /\ UNCHANGED << instance, callLocals, solver >>

\* The final broadcast and the return, on rank 0 (lines 293-296).  The
\* locals of the call, and the solver instance, end with it.
Return ==
    /\ pc[0] = "joined"
    /\ IF MPI
       THEN /\ \A r \in Workers : Len(chan[r]) < MaxInFlight
            /\ chan' = [r \in Workers |-> Append(chan[r], SolMsg(sol))]
       ELSE UNCHANGED chan
    /\ ret' = [ret EXCEPT ![0] = sol]
    /\ pc' = [pc EXCEPT ![0] = "idle"]
    /\ timeLimit' = None
    /\ matStruct' = << << >>, << >> >>
    /\ nnzj' = 0
    /\ nlpLog' = << >>
    /\ commLog' = << >>
    /\ cbCount' = 0
    /\ lastCb' = NoCallback
    /\ lastEval' = ""
    /\ elapsed' = 0
    /\ optTime' = 0
    /\ sol' = None
    /\ UNCHANGED << MPI, instance >>

\* __call__ on a rank other than 0 goes to waitLoop (lines 285-286).  The
\* instance fields of these ranks are not read by any line modelled here
\* and are not tracked.
EnterWaitLoop(r) ==
    /\ MPI
    /\ pc[r] = "idle"
    /\ pc' = [pc EXCEPT ![r] = "waitLoop"]
    /\ UNCHANGED << MPI, ret, elapsed >>
    /\ UNCHANGED << instance, callLocals, solver, comm >>

\* One turn of waitLoop: receive the mode rank 0 broadcast; -1 ends the
\* loop (then sol = None, line 287), any other mode is an evaluation.
WaitLoop(r) ==
    /\ pc[r] = "waitLoop"
    /\ chan[r] # << >>
    /\ Head(chan[r]).tag = "mode"
    /\ chan' = [chan EXCEPT ![r] = Tail(@)]
    /\ pc' = [pc EXCEPT ![r] = IF Head(chan[r]).mode = -1 THEN "joined" ELSE @]
    /\ UNCHANGED << MPI, ret, commLog, elapsed >>
    /\ UNCHANGED << instance, callLocals, solver >>

\* The final broadcast and the return, on a rank other than 0 (lines 293-296).
ReturnWorker(r) ==
    /\ pc[r] = "joined"
    /\ chan[r] # << >>
    /\ Head(chan[r]).tag = "sol"
    /\ chan' = [chan EXCEPT ![r] = Tail(@)]
    /\ ret' = [ret EXCEPT ![r] = Head(chan[r]).sol]
    /\ pc' = [pc EXCEPT ![r] = "idle"]
    /\ UNCHANGED << MPI, commLog, elapsed >>
    /\ UNCHANGED << instance, callLocals, solver >>

\* The statements of __call__ on rank 0 after it was entered, and the
\* callbacks the solver makes while nlp.solve runs.
RankZero ==
    \/ Create
    \/ SetIpoptOptions
    \/ SolveBegin
    \/ \E e \in { <<"eval_f", "fobj">>, <<"eval_g", "fcon">>, <<"eval_grad_f", "gobj">> } :
          EvalFunc(e[1], e[2])
    \/ \E flag \in BOOLEAN : EvalJacG(flag)
    \/ SolveReturn
    \/ Close
    \/ CreateSolution
    \/ BcastFinished
    \/ Return

\* The serial program: mpi4py is not importable (lines 62-64), rank 0 is
\* the only rank; options are set and problems are solved in any order.
SerialInit == Init /\ ~MPI

Next ==
    \/ \E o \in OptionInputs : OnSetOption(o[1], o[2])
    \/ \E prob \in Problems, tl \in TimeLimits, sh \in BOOLEAN : Call(prob, tl, sh)
    \/ RankZero

Spec == SerialInit /\ [][Next]_vars

\* The parallel program: mpi4py is importable, every rank calls __call__
\* again and again, with the options as __init__ left them.
ParallelInit == Init /\ MPI

ParallelNext ==
    \/ \E prob \in Problems, tl \in TimeLimits, sh \in BOOLEAN : Call(prob, tl, sh)
    \/ RankZero
    \/ \E r \in Workers : EnterWaitLoop(r)
    \/ \E r \in Workers : WaitLoop(r)
    \/ \E r \in Workers : ReturnWorker(r)

\* The scheduling the fair specification assumes.  A rank that is inside
\* __call__ keeps running: nlp.solve returns, the interpreter executes the
\* next statement, and a broadcast that was sent is received by a rank
\* waiting for it.  Every rank other than 0 enters __call__ whenever it is
\* outside of it (the program calls the optimizer on every rank).  Nothing
\* obliges rank 0 to enter __call__.
RootStep ==
    \/ Create
    \/ SetIpoptOptions
    \/ SolveBegin
    \/ SolveReturn
    \/ Close
    \/ CreateSolution
    \/ BcastFinished
    \/ Return

FairSpec ==
    /\ ParallelInit
    /\ [][ParallelNext]_vars
    /\ WF_vars(RootStep)
    /\ \A r \in Workers :
          WF_vars(EnterWaitLoop(r)) /\ WF_vars(WaitLoop(r)) /\ WF_vars(ReturnWorker(r))

\* ------------------------------------------------------------ claims

\* The positions of rank 0 after _set_ipopt_options has run and before the
\* call returns.
AfterOptions == {"optionsSet", "solving", "solved", "closed", "solCreated", "joined"}

IsOptionCall(c) == c.m \in OptionSetters

\* The [name, value] pairs of the option-setting calls made on nlp, in order.
ForwardedPairs ==
    LET calls == SelectSeq(nlpLog, IsOptionCall)
    IN [i \in 1 .. Len(calls) |-> << calls[i].name, calls[i].value >>]

\* A value _set_ipopt_options knows a setter for.
HasSetter(item) == item[2].ty \in {"str", "float", "int", "bool"}

\* C1 as stated: every recorded [name, value] entry produces exactly one
\* option-setting call on nlp, in the order the options were recorded.
C1_EveryEntryForwarded ==
    pc[0] \in AfterOptions => ForwardedPairs = set_options

\* C1, amended: the entries whose value is a str, a float or an int (a bool
\* included) produce exactly one option-setting call each, in the order they
\* were recorded, repeated names included; the other entries produce none.
C1_TypedEntriesForwardedInOrder ==
    pc[0] \in AfterOptions => ForwardedPairs = SelectSeq(set_options, HasSetter)

\* C1 witness: the same name was recorded twice with two forwardable values,
\* and the options have been forwarded.
C1_Witness ==
    /\ pc[0] = "solving"
    /\ Len(set_options) = 2
    /\ set_options[1][1] = set_options[2][1]
    /\ set_options[1][2] # set_options[2][2]
    /\ HasSetter(set_options[1]) /\ HasSetter(set_options[2])
    /\ Len(ForwardedPairs) = 2

\* The setter the claim assigns to a value's type; "" when it has none.
SetterOfType(ty) ==
    CASE ty = "str" -> "str_option"
      [] ty = "float" -> "num_option"
      [] ty \in {"int", "bool"} -> "int_option"
      [] OTHER -> ""

\* C2: the setter used for an option is determined by the type of its value
\* alone (str -> str_option, float -> num_option, int or bool -> int_option);
\* a value of another type causes no call, and the options recorded after it
\* are still forwarded.
C2_SetterByType ==
    pc[0] \in AfterOptions =>
        LET calls == SelectSeq(nlpLog, IsOptionCall)
        IN /\ \A k \in 1 .. Len(calls) : calls[k].m = SetterOfType(calls[k].value.ty)
           /\ \A i \in 1 .. Len(set_options) :
                LET n == Cardinality({ k \in 1 .. Len(calls) :
                            calls[k] = NlpCall(SetterOfType(set_options[i][2].ty),
                                               set_options[i][1], set_options[i][2]) })
                    same == Cardinality({ j \in 1 .. Len(set_options) :
                                            set_options[j] = set_options[i] })
                IN IF SetterOfType(set_options[i][2].ty) = "" THEN n = 0 ELSE n = same

\* C2 witness: an option of an unsupported type was recorded before a bool
\* option, and the bool option went to int_option.
C2_Witness ==
    /\ pc[0] = "optionsSet"
    /\ Len(set_options) = 2
    /\ set_options[1][2].ty = "NoneType"
    /\ set_options[2][2].ty = "bool"
    /\ \E k \in 1 .. Len(nlpLog) :
          nlpLog[k] = NlpCall("int_option", set_options[2][1], set_options[2][2])

\* C3 as stated: with a timeLimit the solve does not continue past the
\* limit: once more than timeLimit seconds have passed since timeA, no
\* further evaluation is made for the solver.
C3_NoEvaluationPastTimeLimit ==
    [][ (pc[0] = "solving" /\ timeLimit # None /\ elapsed > timeLimit[1])
            => callCounter' <= callCounter ]_vars

\* The number of calls of method m in the log of solver calls.
Count(m) == Cardinality({ k \in 1 .. Len(nlpLog) : nlpLog[k].m = m })

\* The stage of the solver instance's life a call belongs to.
Stage(c) ==
    CASE c.m = "create" -> 0
      [] c.m \in OptionSetters -> 1
      [] c.m = "solve" -> 2
      [] c.m = "close" -> 3

\* The calls on the solver are in the order create, options, solve, close,
\* each of create, solve and close at most once, and each exactly once by
\* the time the call has closed the solver.
LifecycleOrder ==
    /\ \A i, j \in 1 .. Len(nlpLog) :
          i < j => /\ Stage(nlpLog[i]) <= Stage(nlpLog[j])
                   /\ Stage(nlpLog[i]) = Stage(nlpLog[j]) => Stage(nlpLog[i]) = 1
    /\ nlpLog # << >> => nlpLog[1].m = "create"
    /\ pc[0] \in {"closed", "solCreated", "joined"} =>
          Count("create") = 1 /\ Count("solve") = 1 /\ Count("close") = 1
    /\ pc[0] \in {"assembled", "created", "optionsSet", "solving", "solved"} =>
          Count("close") = 0 /\ (storeHistory => hist = "open")

\* A callback is made only while nlp.solve runs, and the history file is
\* closed only when nlp.close has been called.
LifecycleStep ==
    /\ cbCount' = cbCount + 1 =>
          Count("solve") = 1 /\ Count("close") = 0 /\ pc[0] = "solving"
    /\ (hist' = "closed" /\ hist # "closed") => Count("close") = 1

\* C5: on rank 0 every __call__ drives the solver through create, set
\* options, solve, close, each once and in this order; no solver method or
\* callback is invoked after close; the history file is closed only after
\* nlp.close.
C5_SolverLifecycle == []LifecycleOrder /\ [][LifecycleStep]_vars

\* C5 witness: a call with options and a history file has closed both the
\* solver and the file, after a solve that made callbacks.
C5_Witness ==
    /\ pc[0] = "joined"
    /\ hist = "closed"
    /\ cbCount = MaxEvals
    /\ Len(nlpLog) = 5
    /\ nlpLog[5].m = "close"

\* The number of Jacobian nonzeros of a problem, summed over its constraints.
RECURSIVE TotalNnz(_)
TotalNnz(cons) ==
    IF cons = << >> THEN 0 ELSE Len(Head(cons).row) + TotalNnz(Tail(cons))

\* The nnzj argument of the create call in the log.
CreatedNnzj == (CHOOSE k \in 1 .. Len(nlpLog) : nlpLog[k].m = "create")

\* What a structure request has returned: the pattern assembled before the
\* solve, with as many row and column indices as the nnzj given to create.
JacStructure ==
    (pc[0] = "solving" /\ lastCb.fn = "eval_jac_g" /\ lastCb.flag) =>
        /\ lastCb.ret = MatStructOf(optProb[1])
        /\ Len(lastCb.ret[1]) = nlpLog[CreatedNnzj].value.v
        /\ Len(lastCb.ret[2]) = nlpLog[CreatedNnzj].value.v
        /\ Len(lastCb.ret[1]) = TotalNnz(optProb[1])

\* A structure request makes no masterFunc call, a value request exactly
\* one, for 'gcon'.
JacStep ==
    (cbCount' = cbCount + 1 /\ lastCb'.fn = "eval_jac_g") =>
        IF lastCb'.flag
        THEN callCounter' = callCounter /\ lastEval' = lastEval /\ commLog' = commLog
        ELSE callCounter' = callCounter + 1 /\ lastEval' = "gcon"

\* C6: eval_jac_g answers a structure request with the sparsity pattern
\* assembled before the solve and without a function evaluation, and a
\* value request with exactly one masterFunc(x, ['gcon']) call; a structure
\* answer has nnzj row indices and nnzj column indices, nnzj as passed to
\* pyipoptcore.create.
C6_JacobianCallback == []JacStructure /\ [][JacStep]_vars

\* C6 witness: after one evaluation the solver asked for the structure of a
\* problem with a linear and a nonlinear constraint, three nonzeros in all.
C6_Witness ==
    /\ pc[0] = "solving"
    /\ lastCb.fn = "eval_jac_g" /\ lastCb.flag
    /\ callCounter = 1
    /\ lastCb.ret = << <<0, 1, 2>>, <<1, 0, 1>> >>

\* C7 as stated: after each invocation self.unconstrained is True exactly
\* when the problem passed to that invocation has no constraints.
C7_UnconstrainedIffNoConstraints ==
    (pc[0] = "idle" /\ optProb # None) => (unconstrained <=> Len(optProb[1]) = 0)

\* The -1 broadcasts rank 0 has issued in the running call.
FinishedBcasts == Cardinality({ k \in 1 .. Len(commLog) : commLog[k] = ModeMsg(-1) })

\* Rank 0 has broadcast -1 exactly once when it reaches the final
\* broadcast, and not before nlp.solve returned; a rank in waitLoop is never
\* handed the final solution as a mode and a rank at the final broadcast
\* never a mode as the solution; when every rank is outside __call__ and has
\* received all that was broadcast, all hold the solution rank 0 returned.
RanksAgree ==
    /\ FinishedBcasts = (IF pc[0] = "joined" THEN 1 ELSE 0)
    /\ \A r \in Workers :
          chan[r] # << >> =>
             /\ pc[r] = "waitLoop" => Head(chan[r]).tag = "mode"
             /\ pc[r] = "joined" => Head(chan[r]).tag = "sol"
    /\ (\A r \in Ranks : pc[r] = "idle") /\ (\A r \in Workers : chan[r] = << >>) =>
          \A r \in Workers : ret[r] = ret[0]

\* A rank that returns from __call__ returns a solution, not None.
ReturnsSolution ==
    \A r \in Ranks : (pc[r] # "idle" /\ pc'[r] = "idle") => ret'[r] # None

\* Rank r is inside __call__ and rank 0 is in the same call, or was.
Waiting(r) ==
    /\ pc[r] \in {"waitLoop", "joined"}
    /\ pc[0] # "idle" \/ chan[r] # << >>

\* C4: with mpi4py and __call__ entered on every rank, rank 0 broadcasts
\* -1 exactly once after nlp.solve has returned, every other rank leaves
\* waitLoop and takes part in the final broadcast, and every rank returns
\* the solution rank 0 created: none returns None, none stays blocked.
C4_AllRanksReturnSolution ==
    /\ []RanksAgree
    /\ [][ReturnsSolution]_vars
    /\ \A r \in Workers : Waiting(r) ~> (pc[r] = "idle")

\* C4 witness: every rank has returned from a call, with the solution of a
\* solve that made evaluations.
C4_Witness ==
    /\ MPI
    /\ \A r \in Ranks : pc[r] = "idle" /\ ret[r] # None /\ ret[r] = ret[0]
    /\ \A r \in Workers : chan[r] = << >>
    /\ ret[0][1].optTime > 0

====
